---------------------------- MODULE Spec2Model ----------------------------
(***************************************************************************)
(* Model of the foodix inventory-forecast services.                        *)
(*                                                                         *)
(* Three FastAPI routers serve forecasts:                                  *)
(*   "simple" : src/ml/ml_simple.py                   (XGBoost, current)   *)
(*   "xgb"    : src/ml/archive/ml_endpoints_simple.py (XGBoost, archive)   *)
(*   "ens"    : src/ml/archive/ml_endpoints.py        (stacked ensemble)   *)
(*                                                                         *)
(* Conventions of the model                                                *)
(*   - a calendar date is its ordinal, the number of days since            *)
(*     2024-01-01; a "%Y-%m-%d" string is the triple <<y, m, d>>, so  *)
(*     that the string order of two dates is the lexicographic order of    *)
(*     the triples; strftime and strptime convert between the two;         *)
(*   - an Optional[str] is a record [given, text]; text = <<>> is "";      *)
(*   - quantities (stock, consumption) are integers of one fixed unit, and *)
(*     a product with 0.85, 1.15 or a decay factor is kept in hundredths   *)
(*     of that unit, so no rounding enters the model;                      *)
(*   - datetime.now() is read once per request (a request does not span    *)
(*     midnight).                                                          *)
(***************************************************************************)
EXTENDS Integers, Sequences, FiniteSets, TLC

VARIABLES
    svc,          \* the router this process serves: "simple", "xgb" or "ens"
    started,      \* the startup event has run
    predictor,    \* xgboost_model / ensemble_predictor: "None", "created", "loaded"
    db_loader,    \* db_loader is not None
    resp,         \* the request being answered and what its handler did
    adv,          \* the optimisation analysis on its own: arguments and result
    sug,          \* the action table on its own: arguments and result
    fb,           \* a feature builder on its own: the history given and the rows built
    ens,          \* the ensemble forecast on its own: arguments and result
    imp           \* the CSV import job: its position, its transaction, the store

service == <<svc, started, predictor, db_loader, resp>>

vars == <<svc, started, predictor, db_loader, resp, adv, sug, fb, ens, imp>>

-----------------------------------------------------------------------------
(* Bounds of the model *)

MaxLen == 3          \* longest forecast sequence handed to the advisor
MaxPred == 2         \* largest daily forecast value
MaxBuffer == 3       \* largest safety buffer handed to the advisor
MaxDays == 33        \* largest days_until_runout and safety_buffer of the action table
MaxHorizon == 3      \* largest lookahead_days of a prediction request

\* the dates datetime.now() is drawn from: 2024-02-27 (before a leap day)
\* and 2025-12-30 (before a year end)
Todays == {57, 729}

-----------------------------------------------------------------------------
(* Python values *)

None == [given |-> FALSE, text |-> <<>>]

\* an Optional[int]
NoneInt == [given |-> FALSE, val |-> 0]

SomeInt(n) == [given |-> TRUE, val |-> n]

Some(t) == [given |-> TRUE, text |-> t]

\* truth value of an Optional[str]: None and "" are falsy
Truthy(o) == o.given /\ o.text # <<>>

Max(a, b) == IF a >= b THEN a ELSE b

Min(a, b) == IF a <= b THEN a ELSE b

RECURSIVE Sum(_)
Sum(s) == IF s = <<>> THEN 0 ELSE Head(s) + Sum(Tail(s))

\* s[:n] of Python, for n >= 0
Prefix(s, n) == SubSeq(s, 1, Min(n, Len(s)))

-----------------------------------------------------------------------------
(* datetime: the proleptic Gregorian calendar; ordinal 0 is 2024-01-01 *)

IsLeap(y) == (y % 4 = 0 /\ y % 100 # 0) \/ y % 400 = 0

DaysInMonth(y, m) ==
    IF m = 2 THEN (IF IsLeap(y) THEN 29 ELSE 28)
    ELSE IF m \in {4, 6, 9, 11} THEN 30 ELSE 31

DaysInYear(y) == IF IsLeap(y) THEN 366 ELSE 365

RECURSIVE CivilFrom(_, _, _)
CivilFrom(y, m, n) ==
    IF n < DaysInMonth(y, m) THEN <<y, m, n + 1>>
    ELSE IF m = 12 THEN CivilFrom(y + 1, 1, n - DaysInMonth(y, m))
    ELSE CivilFrom(y, m + 1, n - DaysInMonth(y, m))

\* date.strftime("%Y-%m-%d") of the date with ordinal n >= 0
strftime(n) == CivilFrom(2024, 1, n)

\* whether datetime.strptime(text, "%Y-%m-%d") accepts the text
WellFormed(t) ==
    /\ Len(t) = 3
    /\ t[1] \in 1..9999
    /\ t[2] \in 1..12
    /\ t[3] >= 1 /\ t[3] <= DaysInMonth(t[1], t[2])

RECURSIVE DaysBeforeYear(_)
DaysBeforeYear(y) ==
    IF y = 2024 THEN 0
    ELSE IF y > 2024 THEN DaysInYear(y - 1) + DaysBeforeYear(y - 1)
    ELSE DaysBeforeYear(y + 1) - DaysInYear(y)

RECURSIVE DaysBeforeMonth(_, _)
DaysBeforeMonth(y, m) ==
    IF m <= 1 THEN 0 ELSE DaysInMonth(y, m - 1) + DaysBeforeMonth(y, m - 1)

\* datetime.strptime(text, "%Y-%m-%d").date() as an ordinal, for a well-formed text
strptime(t) == DaysBeforeYear(t[1]) + DaysBeforeMonth(t[1], t[2]) + (t[3] - 1)

\* the order of two date strings, as Python compares str
StrLess(a, b) ==
    \/ a[1] < b[1]
    \/ a[1] = b[1] /\ a[2] < b[2]
    \/ a[1] = b[1] /\ a[2] = b[2] /\ a[3] < b[3]

-----------------------------------------------------------------------------
(* Prediction points *)

\* PredictionDataPoint; a field the class of a router does not declare is None
Point(date, actual, predicted, confidence_low, confidence_high) ==
    [date |-> date, actual |-> actual, predicted |-> predicted,
     confidence_low |-> confidence_low, confidence_high |-> confidence_high]

\* "predicted: float" is a required field that does not admit None: building
\* a PredictionDataPoint without a prediction raises pydantic's ValidationError
Validates(point) == point.predicted.given

\* the clamp left out
ClampNone(pred_value) == pred_value

\* max(0, pred_value)
Clamp(pred_value) == Max(0, pred_value)

\* pred_value * 0.85 and pred_value * 1.15, of a value in hundredths, in
\* ten-thousandths
ConfidenceLow(pred_value) == 85 * pred_value

ConfidenceHigh(pred_value) == 115 * pred_value

\* the forecast dated from base_date itself, timedelta(days=i)
ForecastDateFromToday(base_date, i) == strftime(base_date + i)

\* prediction_date.strftime("%Y-%m-%d") of step i of range(lookahead_days)
ForecastDate(base_date, i) == strftime(base_date + i + 1)

-----------------------------------------------------------------------------
(* History: the rows get_sku_history returns, in the order returned.  A row *)
(* is [date, qty_used]; qty_used may be null.                               *)

Row(date, qty_used) == [date |-> date, qty_used |-> qty_used]

\* the histories the store is asked for: none, one row, a null, a negative
\* quantity (a correction), and more rows than the 7 the response shows
Histories(today) ==
    { <<>>,
      <<Row(today - 1, SomeInt(2))>>,
      <<Row(today - 2, NoneInt), Row(today - 1, SomeInt(1))>>,
      <<Row(today - 1, SomeInt(-1))>>,
      [i \in 1..8 |-> Row(today - 9 + i, SomeInt(i % 3))] }

\* s.tail(n)
TailN(s, n) == SubSeq(s, Max(1, Len(s) - n + 1), Len(s))

\* fillna(0) of the qty_used column, in hundredths
QtyUsedFilled(data) ==
    [i \in 1..Len(data) |->
        IF data[i].qty_used.given THEN 100 * data[i].qty_used.val ELSE 0]

\* float(np.mean(data['qty_used'].fillna(0).tail(7))), in hundredths, rounded down
FallbackAverage(data) ==
    LET last == TailN(QtyUsedFilled(data), 7)
    IN  Sum(last) \div Len(last)

\* the historical point of a row: "simple" leaves predicted out, and its
\* class has no confidence fields; the archive routers pass predicted=None
HistoricalPoint(row) ==
    Point(strftime(row.date),
          SomeInt(IF row.qty_used.given THEN 100 * row.qty_used.val ELSE 0),
          NoneInt, NoneInt, NoneInt)

-----------------------------------------------------------------------------
(* The predictor: an opaque function of the latest feature row, which is    *)
(* the same for every forecast day.  One call either raises or returns the  *)
(* raw value pred.value (whole units).                                      *)

PredictorOutcomes ==
    {[raises |-> TRUE, value |-> 0]}
        \cup {[raises |-> FALSE, value |-> v] : v \in (-1)..MaxPred}

\* forecast values of ml_simple: the clamp is inside the try, the average of
\* the except branch is used as it is
SimplePredValue(pred, data) ==
    IF pred.raises THEN FallbackAverage(data) ELSE Clamp(100 * pred.value)

SimpleRollout(lookahead_days, base_date, pred, data) ==
    [n \in 1..lookahead_days |->
        Point(ForecastDate(base_date, n - 1), NoneInt,
              SomeInt(SimplePredValue(pred, data)), NoneInt, NoneInt)]

\* forecast points of ml_endpoints_simple, for a predictor call that returns
XgbRollout(lookahead_days, base_date, pred) ==
    [n \in 1..lookahead_days |->
        LET pred_value == Clamp(100 * pred.value)
        IN  Point(ForecastDate(base_date, n - 1), NoneInt, SomeInt(pred_value),
                  SomeInt(ConfidenceLow(pred_value)),
                  SomeInt(ConfidenceHigh(pred_value)))]

\* np.expm1 on hundredths: e^x - 1 by its series up to the square term, which
\* is 0 at 0 and increasing on x >= 0, the only arguments it is given
Expm1(x) == x + (x * x) \div 200

\* the forecast with the decay compounded on the previous day's value:
\* forecast[i] = 0.98 * forecast[i - 1], in hundredths, rounded down
RECURSIVE CompoundedValue(_, _)
CompoundedValue(current_pred, i) ==
    IF i = 0 THEN Max(0, 100 * current_pred)
    ELSE (98 * CompoundedValue(current_pred, i - 1)) \div 100

EnsembleForecastCompounding(current_pred, forecast_days) ==
    [n \in 1..forecast_days |-> CompoundedValue(current_pred, n - 1)]

\* EnsembleInference.predict_with_ensemble: forecast[i] =
\* max(0, current_pred * (1.0 - i * 0.02)), in hundredths
EnsembleForecast(current_pred, forecast_days) ==
    [n \in 1..forecast_days |-> Max(0, current_pred * (100 - 2 * (n - 1)))]

\* forecast points of ml_endpoints: expm1, np.maximum(., 0), then the bands
EnsRollout(lookahead_days, base_date, pred) ==
    LET forecast == EnsembleForecast(pred.value, lookahead_days)
    IN  [n \in 1..lookahead_days |->
            LET pred_value == Max(Expm1(forecast[n]), 0)
            IN  Point(ForecastDate(base_date, n - 1), NoneInt, SomeInt(pred_value),
                      SomeInt(ConfidenceLow(pred_value)),
                      SomeInt(ConfidenceHigh(pred_value)))]

-----------------------------------------------------------------------------
(* The prediction handlers *)

\* the availability gate: "if not <predictor> or not db_loader"
PredictGate(pr, db) == pr # "None" /\ db

UnavailableDetail(router) ==
    CASE router = "simple" -> "Model not available"
      [] router = "xgb" -> "XGBoost model not loaded"
      [] router = "ens" -> "Models not loaded"

\* "Prediction failed: " + str(HTTPException(404, ...)); the sku that ends
\* the message is kept beside it, in detail_sku
NoDataDetail(router) ==
    IF router = "simple" THEN "Prediction failed: 404: No data found for SKU: "
    ELSE "Prediction failed: 404: No historical data found for SKU: "

\* what a handler leaves behind: the response (status, detail, the sku the
\* detail names, the points of a 200) and what it did on the way (the
\* forecast points it built, the history fetches and predictor calls it made)
Outcome(status, detail, detail_sku, predictions, rollout, fetches, predict_calls) ==
    [status |-> status, detail |-> detail, detail_sku |-> detail_sku,
     predictions |-> predictions, rollout |-> rollout,
     fetches |-> fetches, predict_calls |-> predict_calls]

\* predictions.insert(0, ...) per row of data.tail(7), then sort by date string
RECURSIVE InsertSorted(_, _)
InsertSorted(point, sorted) ==
    IF sorted = <<>> THEN <<point>>
    ELSE IF StrLess(point.date, Head(sorted).date) THEN <<point>> \o sorted
    ELSE <<Head(sorted)>> \o InsertSorted(point, Tail(sorted))

RECURSIVE SortByDate(_)
SortByDate(points) ==
    IF points = <<>> THEN <<>>
    ELSE InsertSorted(points[Len(points)], SortByDate(SubSeq(points, 1, Len(points) - 1)))

\* the tail of a handler once the forecast points exist: the historical
\* points are built, all points sorted and returned
MergeAndRespond(rollout, history, fetches, predict_calls) ==
    LET historical == [i \in 1..Len(TailN(history, 7)) |->
                          HistoricalPoint(TailN(history, 7)[i])]
    IN  IF \E i \in 1..Len(historical) : ~Validates(historical[i])
        THEN Outcome(500, "Prediction failed: ValidationError", "", <<>>,
                     rollout, fetches, predict_calls)
        ELSE Outcome(200, "", "", SortByDate(historical \o rollout),
                     rollout, fetches, predict_calls)

\* predict_inventory_simple / predict_inventory.  Everything raised inside
\* the try block, HTTPException included, leaves as HTTPException(500).
PredictInventory(router, pr, db, sku_id, lookahead_days, today, history, pred) ==
    IF ~PredictGate(pr, db)
    THEN Outcome(503, UnavailableDetail(router), "", <<>>, <<>>, 0, 0)
    ELSE IF history = <<>>
    THEN Outcome(500, NoDataDetail(router), sku_id,
                 <<>>, <<>>, 1, 0)
    ELSE IF router = "simple"
    THEN MergeAndRespond(SimpleRollout(lookahead_days, today, pred, history),
                         history, 1, lookahead_days)
    ELSE IF router = "ens" /\ pr # "loaded"
    THEN Outcome(500, "Prediction failed: AttributeError", "", <<>>, <<>>, 1, 0)
    ELSE IF pred.raises
    THEN Outcome(500, "Prediction failed: predictor error", "", <<>>, <<>>, 1, 1)
    ELSE IF router = "xgb"
    THEN MergeAndRespond(XgbRollout(lookahead_days, today, pred),
                         history, 1, lookahead_days)
    ELSE MergeAndRespond(EnsRollout(lookahead_days, today, pred), history, 1, 1)

\* lookahead_days: int = Field(7, ge=1, le=90)
ValidLookahead(lookahead_days) == lookahead_days >= 1 /\ lookahead_days <= 90

\* POST /ml/predict/inventory: the framework validates the body against
\* InventoryPredictionRequest and answers 422 with the list of validation
\* errors before the handler is entered
PostPredictInventory(router, pr, db, sku_id, lookahead_days, today, history, pred) ==
    IF ~ValidLookahead(lookahead_days)
    THEN Outcome(422, "RequestValidationError", "", <<>>, <<>>, 0, 0)
    ELSE PredictInventory(router, pr, db, sku_id, lookahead_days, today, history, pred)


-----------------------------------------------------------------------------
(* Optimization advisor: the body of get_optimization_analytics after the   *)
(* forecast values have been read from the prediction response.             *)

\* the runout loop with ">" for ">=": a stock reached exactly is passed over
RECURSIVE RunoutLoopStrict(_, _, _, _)
RunoutLoopStrict(predictions, current_stock, i, cumulative_consumption) ==
    IF i > Len(predictions) THEN 0
    ELSE IF cumulative_consumption + predictions[i] > current_stock THEN i
    ELSE RunoutLoopStrict(predictions, current_stock, i + 1,
                          cumulative_consumption + predictions[i])

\* the runout loop with "<=" for ">=": it stops at the first day the stock
\* still covers
RECURSIVE RunoutLoopWhileCovered(_, _, _, _)
RunoutLoopWhileCovered(predictions, current_stock, i, cumulative_consumption) ==
    IF i > Len(predictions) THEN 0
    ELSE IF cumulative_consumption + predictions[i] <= current_stock THEN i
    ELSE RunoutLoopWhileCovered(predictions, current_stock, i + 1,
                                cumulative_consumption + predictions[i])

\* 1-based index of the first forecast day whose cumulative consumption
\* reaches current_stock, 0 if the loop ends without a break
RECURSIVE RunoutLoop(_, _, _, _)
RunoutLoop(predictions, current_stock, i, cumulative_consumption) ==
    IF i > Len(predictions) THEN 0
    ELSE IF cumulative_consumption + predictions[i] >= current_stock THEN i
    ELSE RunoutLoop(predictions, current_stock, i + 1,
                    cumulative_consumption + predictions[i])

\* runout_date dated with timedelta(days=i): a stock gone on the first
\* forecast day runs out today
RunoutDateFromToday(predictions, current_stock, today) ==
    LET k == RunoutLoop(predictions, current_stock, 1, 0)
    IN  IF k = 0 THEN None ELSE Some(strftime(today + k - 1))

\* runout_date: None, or the "%Y-%m-%d" string of today + (i + 1) days
RunoutDate(predictions, current_stock, today) ==
    LET k == RunoutLoop(predictions, current_stock, 1, 0)
    IN  IF k = 0 THEN None ELSE Some(strftime(today + k))

\* (perish_datetime - datetime.now().date()).days
DaysToPerish(perish_date, today) == strptime(perish_date.text) - today

\* waste_risk summing predictions[:days_to_perish - 1], the perish day left out
WasteRiskBeforePerishDay(predictions, current_stock, perish_date, today) ==
    IF ~Truthy(perish_date) THEN FALSE
    ELSE LET days_to_perish == DaysToPerish(perish_date, today)
         IN  IF days_to_perish > 0
             THEN Sum(Prefix(predictions, days_to_perish - 1)) < current_stock
             ELSE FALSE

\* waste_risk with "days_to_perish >= 0": a perish date of today is examined
WasteRiskFromToday(predictions, current_stock, perish_date, today) ==
    IF ~Truthy(perish_date) THEN FALSE
    ELSE LET days_to_perish == DaysToPerish(perish_date, today)
         IN  IF days_to_perish >= 0
             THEN Sum(Prefix(predictions, days_to_perish)) < current_stock
             ELSE FALSE

\* waste_risk summing the whole forecast, sum(predictions) without the slice
WasteRiskWholeForecast(predictions, current_stock, perish_date, today) ==
    IF ~Truthy(perish_date) THEN FALSE
    ELSE LET days_to_perish == DaysToPerish(perish_date, today)
         IN  IF days_to_perish > 0
             THEN Sum(predictions) < current_stock
             ELSE FALSE

\* waste_risk with "<=" for "<": a stock used up exactly by the perish date
\* counts as waste
WasteRiskWhenExactlyUsed(predictions, current_stock, perish_date, today) ==
    IF ~Truthy(perish_date) THEN FALSE
    ELSE LET days_to_perish == DaysToPerish(perish_date, today)
         IN  IF days_to_perish > 0
             THEN Sum(Prefix(predictions, days_to_perish)) <= current_stock
             ELSE FALSE

\* waste_risk, for a perish_date that is falsy or well-formed
WasteRisk(predictions, current_stock, perish_date, today) ==
    IF ~Truthy(perish_date) THEN FALSE
    ELSE LET days_to_perish == DaysToPerish(perish_date, today)
         IN  IF days_to_perish > 0
             THEN Sum(Prefix(predictions, days_to_perish)) < current_stock
             ELSE FALSE

\* days_until_runout: None, or (runout_datetime - datetime.now().date()).days
DaysUntilRunout(runout_date, today) ==
    IF Truthy(runout_date) THEN SomeInt(strptime(runout_date.text) - today)
    ELSE NoneInt

\* the action table with "<" for "<=" in the critical test
GenerateActionSuggestionStrict(days_until_runout, waste_risk, current_stock, avg_daily_consumption, safety_buffer) ==
    IF waste_risk
    THEN "Run a special - high waste risk detected before expiry"
    ELSE IF ~days_until_runout.given
    THEN "Stock appears sufficient - monitor regularly"
    ELSE IF days_until_runout.val < safety_buffer
    THEN "Reorder now - critical stock level"
    ELSE IF days_until_runout.val <= safety_buffer + 3
    THEN "Reorder soon - approaching reorder point"
    ELSE IF days_until_runout.val >= 30
    THEN "Increase safety buffer - excess inventory detected"
    ELSE "Monitor closely - stock levels normal"

\* the action table with a test of the stock put first
GenerateActionSuggestionByStock(days_until_runout, waste_risk, current_stock, avg_daily_consumption, safety_buffer) ==
    IF current_stock <= 0
    THEN "Reorder now - critical stock level"
    ELSE GenerateActionSuggestionStrict(days_until_runout, waste_risk, current_stock,
                                        avg_daily_consumption, safety_buffer + 1)

GenerateActionSuggestion(days_until_runout, waste_risk, current_stock, avg_daily_consumption, safety_buffer) ==
    IF waste_risk
    THEN "Run a special - high waste risk detected before expiry"
    ELSE IF ~days_until_runout.given
    THEN "Stock appears sufficient - monitor regularly"
    ELSE IF days_until_runout.val <= safety_buffer
    THEN "Reorder now - critical stock level"
    ELSE IF days_until_runout.val <= safety_buffer + 3
    THEN "Reorder soon - approaching reorder point"
    ELSE IF days_until_runout.val >= 30
    THEN "Increase safety buffer - excess inventory detected"
    ELSE "Monitor closely - stock levels normal"

\* int(x / y) of Python for y > 0: the quotient truncated towards zero
TruncDiv(x, y) == IF x >= 0 THEN x \div y ELSE -((-x) \div y)

\* np.mean(predictions) in hundredths of a unit, truncated
Mean100(predictions) == (100 * Sum(predictions)) \div Len(predictions)

\* "stock_coverage_days" of the details
StockCoverageDays(predictions, current_stock) ==
    IF Sum(predictions) > 0
    THEN TruncDiv(current_stock * Len(predictions), Sum(predictions))
    ELSE 999

NoAnalysis(status, detail) ==
    [status |-> status, detail |-> detail, runout_date |-> None,
     waste_risk |-> FALSE, suggested_action |-> "", days_until_runout |-> NoneInt,
     stock_coverage_days |-> 0]

\* The handler from the forecast values on.  An exception raised inside the
\* try block, the HTTPException(404) included, is caught by
\* "except Exception" and re-raised as HTTPException(500).
OptimizationAnalysis(predictions, current_stock, perish_date, safety_buffer_days, today) ==
    IF predictions = <<>>
    THEN NoAnalysis(500, "Optimization analysis failed: 404: No predictions available")
    ELSE IF Truthy(perish_date) /\ ~WellFormed(perish_date.text)
    THEN NoAnalysis(500, "Optimization analysis failed: ValueError")
    ELSE LET runout_date == RunoutDate(predictions, current_stock, today)
             waste_risk == WasteRisk(predictions, current_stock, perish_date, today)
             days_until_runout == DaysUntilRunout(runout_date, today)
         IN  [status |-> 200, detail |-> "",
              runout_date |-> runout_date,
              waste_risk |-> waste_risk,
              suggested_action |->
                  GenerateActionSuggestion(days_until_runout, waste_risk, current_stock,
                                           Mean100(predictions), safety_buffer_days),
              days_until_runout |-> days_until_runout,
              stock_coverage_days |-> StockCoverageDays(predictions, current_stock)]

-----------------------------------------------------------------------------
(* The advisor on its own: every forecast sequence, stock level, perish     *)
(* date and safety buffer within the bounds is handed to the analysis, and  *)
(* every argument tuple to the action table.                                *)

RECURSIVE SeqsUpTo(_, _)
SeqsUpTo(S, n) ==
    IF n = 0 THEN {<<>>}
    ELSE LET shorter == SeqsUpTo(S, n - 1)
         IN  shorter \cup {Append(q, x) : q \in {r \in shorter : Len(r) = n - 1}, x \in S}

Forecasts == SeqsUpTo(0..MaxPred, MaxLen)

\* lookahead_days=30 of the prediction request the optimisation handler makes
OptimizationLookahead == 30

\* the forecasts of a 30-day prediction, as sequences: nothing consumed
\* before day first_day, the same amount on every day from it on
LongForecasts ==
    {[i \in 1..OptimizationLookahead |-> IF i >= first_day THEN daily ELSE 0] \o <<>> :
        first_day \in 1..OptimizationLookahead, daily \in 0..MaxPred}

Stocks == (-1)..(MaxPred * MaxLen + 1)

\* perish_date values: absent, "", two texts strptime rejects, and the dates
\* from yesterday to one day past the longest forecast
PerishDates(today) ==
    {None, Some(<<>>), Some(<<2024, 13, 1>>), Some(<<2025, 2, 29>>)}
        \cup {Some(strftime(today + d)) : d \in (-1)..(MaxLen + 1)}

NoHealth == [status |-> "", model_loaded |-> FALSE, database_connected |-> FALSE]

\* no request served yet
NoRequest ==
    [endpoint |-> "none", sku_id |-> "", lookahead_days |-> 0, today |-> 0,
     perish_date |-> None, history |-> <<>>, pred |-> [raises |-> FALSE, value |-> 0],
     out |-> Outcome(0, "", "", <<>>, <<>>, 0, 0),
     analysis |-> NoAnalysis(0, ""), health |-> NoHealth]

\* the tables import_data.py writes, in the order it writes them
Tables ==
    <<"restaurants", "ingredients", "holidays", "restaurant_ingredients",
      "menu_items", "menu_item_ingredients", "daily_inventory_log", "predictions">>

\* no row of this run in any table
NoRows == [t \in {Tables[k] : k \in 1..Len(Tables)} |-> 0]

\* import_data.py not run
NoImport == [pc |-> "none", rows |-> 0, keys |-> 0, predictions |-> 0, table |-> 0,
             daily_batches |-> <<>>, prediction_batches |-> <<>>,
             written |-> NoRows, committed |-> NoRows, commits |-> 0]

\* predict_with_ensemble not called
NoForecast == [called |-> FALSE, current_pred |-> 0, forecast_days |-> 0, forecast |-> <<>>]

\* no feature builder called
NoBuild == [called |-> FALSE, builder |-> "none", history |-> <<>>, raised |-> FALSE,
            rows |-> <<>>]

NoInput == [called |-> FALSE, predictions |-> <<>>, current_stock |-> 0,
            perish_date |-> None, safety_buffer_days |-> 0, today |-> 0,
            out |-> NoAnalysis(0, "")]

\* the arguments of one call of the analysis, not yet made
AnalysisInput(predictions, current_stock, perish_date, safety_buffer_days, today) ==
    [called |-> FALSE, predictions |-> predictions,
     current_stock |-> current_stock, perish_date |-> perish_date,
     safety_buffer_days |-> safety_buffer_days, today |-> today,
     out |-> NoAnalysis(0, "")]

\* adv holds the arguments of a call made on the day today: a short forecast
\* with every stock and perish date around it, or a 30-day forecast with the
\* stocks, perish dates and buffers around its ends
AnalysisInputs(today) ==
    \/ \E predictions \in Forecasts, current_stock \in Stocks,
          perish_date \in PerishDates(today), safety_buffer_days \in {0, MaxBuffer} :
          adv = AnalysisInput(predictions, current_stock, perish_date,
                              safety_buffer_days, today)
    \/ \E predictions \in LongForecasts,
          current_stock \in {0, 1, MaxPred + 1, MaxPred * OptimizationLookahead + 1},
          perish_date \in {None, Some(strftime(today + MaxLen)),
                           Some(strftime(today + OptimizationLookahead)),
                           Some(strftime(today + OptimizationLookahead + 1))},
          safety_buffer_days \in {0, MaxBuffer, 26, 27} :
          adv = AnalysisInput(predictions, current_stock, perish_date,
                              safety_buffer_days, today)

Analyse ==
    /\ adv # NoInput /\ ~adv.called
    /\ adv' = [adv EXCEPT !.called = TRUE,
                          !.out = OptimizationAnalysis(adv.predictions, adv.current_stock,
                                      adv.perish_date, adv.safety_buffer_days, adv.today)]
    /\ UNCHANGED <<service, sug, fb, ens, imp>>

OptionalDays == {NoneInt} \cup {SomeInt(n) : n \in 0..MaxDays}

NoSuggestion == [called |-> FALSE, days_until_runout |-> NoneInt, waste_risk |-> FALSE,
                 current_stock |-> 0, avg_daily_consumption |-> 0, safety_buffer |-> -2,
                 action |-> ""]

SuggestionInputs ==
    {[called |-> FALSE, days_until_runout |-> days_until_runout,
      waste_risk |-> waste_risk, current_stock |-> current_stock,
      avg_daily_consumption |-> avg_daily_consumption,
      safety_buffer |-> safety_buffer, action |-> ""] :
        days_until_runout \in OptionalDays, waste_risk \in BOOLEAN,
        current_stock \in {0, MaxPred}, avg_daily_consumption \in {0, 100 * MaxPred},
        safety_buffer \in (-1)..MaxDays}

Suggest ==
    /\ sug # NoSuggestion /\ ~sug.called
    /\ sug' = [sug EXCEPT !.called = TRUE,
                          !.action = GenerateActionSuggestion(sug.days_until_runout,
                                         sug.waste_risk, sug.current_stock,
                                         sug.avg_daily_consumption, sug.safety_buffer)]
    /\ UNCHANGED <<service, adv, fb, ens, imp>>

InitAdvisor ==
    /\ svc = "xgb" /\ started = FALSE /\ predictor = "None" /\ db_loader = FALSE
    /\ resp = NoRequest
    /\ fb = NoBuild
    /\ ens = NoForecast
    /\ imp = NoImport
    /\ \/ (\E today \in Todays : AnalysisInputs(today)) /\ sug = NoSuggestion
       \/ adv = NoInput /\ sug \in SuggestionInputs

NextAdvisor == Analyse \/ Suggest

SpecAdvisor == InitAdvisor /\ [][NextAdvisor]_vars

-----------------------------------------------------------------------------
(* The optimisation handler, the health check and startup *)

\* "if not xgboost_model" / "if not ensemble_predictor"
OptimizeGate(pr) == pr # "None"

\* [p.predicted for p in prediction_response.predictions if p.predicted is not None]
RECURSIVE PredictedValues(_)
PredictedValues(points) ==
    IF points = <<>> THEN <<>>
    ELSE IF Head(points).predicted.given
         THEN <<Head(points).predicted.val>> \o PredictedValues(Tail(points))
         ELSE PredictedValues(Tail(points))

\* get_optimization_analytics: the gate, the nested 30-day prediction request
\* inside the try block, then the analysis of its forecast values (the stock
\* in hundredths, as the forecast values are)
GetOptimizationAnalytics(router, pr, db, sku_id, current_stock, perish_date, safety_buffer_days, today, history, pred) ==
    IF ~OptimizeGate(pr)
    THEN [out |-> Outcome(503, UnavailableDetail(router), "", <<>>, <<>>, 0, 0),
          analysis |-> NoAnalysis(503, UnavailableDetail(router))]
    ELSE LET inner == PredictInventory(router, pr, db, sku_id, OptimizationLookahead,
                                       today, history, pred)
         IN  IF inner.status # 200
             THEN [out |-> Outcome(500, "Optimization analysis failed: HTTPException",
                                   inner.detail_sku, <<>>, <<>>,
                                   inner.fetches, inner.predict_calls),
                   analysis |-> NoAnalysis(500, "Optimization analysis failed: HTTPException")]
             ELSE LET analysis == OptimizationAnalysis(PredictedValues(inner.predictions),
                                      100 * current_stock, perish_date,
                                      safety_buffer_days, today)
                  IN  [out |-> Outcome(analysis.status, analysis.detail, "", <<>>, <<>>,
                                       inner.fetches, inner.predict_calls),
                       analysis |-> analysis]

\* ensemble_predictor.is_loaded: set by a load_ensemble() that returned
IsLoaded(pr) == pr = "loaded"

\* "model_loaded" / "xgboost_loaded" / "ensemble_loaded" of the health report
ModelLoadedFlag(router, pr) ==
    IF router = "ens" THEN pr # "None" /\ IsLoaded(pr) ELSE pr # "None"

\* "database_connected" of the health report
DatabaseConnectedFlag(db) == db

\* the status taken from the two handles in every router, is_loaded ignored
HealthStatusOfHandles(router, pr, db) ==
    IF pr # "None" /\ db THEN "healthy" ELSE "degraded"

\* "status" of the health report: ml_simple tests the two handles, the
\* archive routers test all([...]) of the two flags they report
HealthStatus(router, pr, db) ==
    IF router = "simple"
    THEN (IF pr # "None" /\ db THEN "healthy" ELSE "degraded")
    ELSE (IF ModelLoadedFlag(router, pr) /\ DatabaseConnectedFlag(db)
          THEN "healthy" ELSE "degraded")

HealthCheck(router, pr, db) ==
    [status |-> HealthStatus(router, pr, db),
     model_loaded |-> ModelLoadedFlag(router, pr),
     database_connected |-> DatabaseConnectedFlag(db)]

\* a startup that loads the model before it builds the loader
StartupOutcomesModelFirst(router) ==
    {<<"None", FALSE>>, <<"loaded", FALSE>>, <<"loaded", TRUE>>}
        \cup (IF router = "ens" THEN {<<"created", FALSE>>, <<"created", TRUE>>} ELSE {})

\* the handles a startup can leave, as <<predictor, db_loader>>: the loader
\* is built first, so a failure there leaves both None; a missing or
\* unreadable model file leaves the predictor None; the ensemble predictor
\* object is assigned before load_ensemble(), whose failure leaves it set
StartupOutcomes(router) ==
    {<<"None", FALSE>>, <<"None", TRUE>>, <<"loaded", TRUE>>}
        \cup (IF router = "ens" THEN {<<"created", TRUE>>} ELSE {})

-----------------------------------------------------------------------------
(* The service: one process serving one router, one request at a time *)

Routers == {"simple", "xgb", "ens"}

Skus == {"1", "invalid_sku_12345"}

\* the lookahead_days of the requests sent: the horizons up to MaxHorizon,
\* and 0 and 91, just outside the range the request model admits
Lookaheads == (0..MaxHorizon) \cup {91}

NoPrediction == [raises |-> FALSE, value |-> 0]

Request(endpoint, sku_id, lookahead_days, today, history, pred, result, health) ==
    [endpoint |-> endpoint, sku_id |-> sku_id, lookahead_days |-> lookahead_days,
     today |-> today, perish_date |-> None,
     history |-> IF result.out.fetches > 0 THEN history ELSE <<>>,
     pred |-> IF result.out.predict_calls > 0 THEN pred ELSE NoPrediction,
     out |-> result.out, analysis |-> result.analysis, health |-> health]

Init ==
    /\ svc \in Routers
    /\ started = FALSE
    /\ predictor = "None"
    /\ db_loader = FALSE
    /\ resp = NoRequest
    /\ adv = NoInput
    /\ sug = NoSuggestion
    /\ fb = NoBuild
    /\ ens = NoForecast
    /\ imp = NoImport

\* load_simple_models / load_ml_models, run once before any request is served
Startup ==
    /\ ~started
    /\ started' = TRUE
    /\ \E o \in StartupOutcomes(svc) : predictor' = o[1] /\ db_loader' = o[2]
    /\ UNCHANGED <<svc, resp, adv, sug, fb, ens, imp>>

\* POST /ml/predict/inventory
Predict ==
    /\ started
    /\ resp = NoRequest
    /\ \E sku_id \in Skus, lookahead_days \in Lookaheads, today \in Todays,
          pred \in PredictorOutcomes :
          \E history \in Histories(today) :
             resp' = Request("predict", sku_id, lookahead_days, today, history, pred,
                             [out |-> PostPredictInventory(svc, predictor, db_loader,
                                          sku_id, lookahead_days, today, history, pred),
                              analysis |-> NoAnalysis(0, "")],
                             NoHealth)
    /\ UNCHANGED <<svc, started, predictor, db_loader, adv, sug, fb, ens, imp>>

\* GET /ml/analytics/optimization/{sku_id}, which ml_simple does not have
Optimize ==
    /\ started
    /\ resp = NoRequest
    /\ svc \in {"xgb", "ens"}
    /\ \E sku_id \in Skus, today \in Todays, pred \in PredictorOutcomes,
          current_stock \in {0, MaxPred} :
          \E history \in Histories(today),
             perish_date \in {None, Some(<<2024, 13, 1>>), Some(strftime(today + 1))} :
             resp' = [Request("optimize", sku_id, OptimizationLookahead, today, history,
                              pred,
                              GetOptimizationAnalytics(svc, predictor, db_loader, sku_id,
                                  current_stock, perish_date, MaxBuffer, today, history,
                                  pred),
                              NoHealth)
                        EXCEPT !.perish_date = perish_date]
    /\ UNCHANGED <<svc, started, predictor, db_loader, adv, sug, fb, ens, imp>>

\* GET /ml/health
Health ==
    /\ started
    /\ resp = NoRequest
    /\ resp' = [NoRequest EXCEPT !.endpoint = "health",
                                 !.health = HealthCheck(svc, predictor, db_loader)]
    /\ UNCHANGED <<svc, started, predictor, db_loader, adv, sug, fb, ens, imp>>

\* what db_loader.get_available_skus(limit=limit) does: it returns or raises
ListingOutcomes == {[raises |-> FALSE], [raises |-> TRUE]}

\* get_simple_skus / get_available_skus: the gate on the loader, the listing
\* inside the try block, any exception answered with 500
GetAvailableSkus(db, listing) ==
    IF ~db THEN Outcome(503, "Database not connected", "", <<>>, <<>>, 0, 0)
    ELSE IF listing.raises THEN Outcome(500, "Failed to fetch SKUs", "", <<>>, <<>>, 1, 0)
    ELSE Outcome(200, "", "", <<>>, <<>>, 1, 0)

\* a listing that drops the loader when the store fails
ListSkusDisconnecting ==
    /\ started
    /\ resp = NoRequest
    /\ \E listing \in ListingOutcomes :
          /\ resp' = [NoRequest EXCEPT !.endpoint = "skus",
                                       !.out = GetAvailableSkus(db_loader, listing)]
          /\ db_loader' = (db_loader /\ ~listing.raises)
    /\ UNCHANGED <<svc, started, predictor, adv, sug, fb, ens, imp>>

\* GET /ml/skus
ListSkus ==
    /\ started
    /\ resp = NoRequest
    /\ \E listing \in ListingOutcomes :
          resp' = [NoRequest EXCEPT !.endpoint = "skus",
                                   !.out = GetAvailableSkus(db_loader, listing)]
    /\ UNCHANGED <<svc, started, predictor, db_loader, adv, sug, fb, ens, imp>>

\* the response (or the HTTPException) leaves the handler; the process is
\* ready for the next request
Reply ==
    /\ resp # NoRequest
    /\ resp' = NoRequest
    /\ UNCHANGED <<svc, started, predictor, db_loader, adv, sug, fb, ens, imp>>

Next == Startup \/ Predict \/ Optimize \/ Health \/ ListSkus \/ Reply

Spec == Init /\ [][Next]_vars

-----------------------------------------------------------------------------
(* Properties of the advisor *)

\* the analysis was run on inputs that raise nothing: some forecast value
\* and a perish date that is absent, empty or well-formed
Analysed ==
    /\ adv.called
    /\ adv.predictions # <<>>
    /\ Truthy(adv.perish_date) => WellFormed(adv.perish_date.text)

\* cumulative predicted consumption of forecast days 1..k
Cumulative(k) == Sum(Prefix(adv.predictions, k))

\* the forecast days at which the cumulative consumption first reaches the stock
FirstReached ==
    {k \in 1..Len(adv.predictions) :
        /\ Cumulative(k) >= adv.current_stock
        /\ \A j \in 1..(k - 1) : Cumulative(j) < adv.current_stock}

\* C1: the runout date is the date of the first forecast day k (today + k
\* days) at which the cumulative forecast of days 1..k reaches or exceeds
\* current_stock, reaching it exactly included; when the cumulative sum never
\* reaches the stock the analysis succeeds with no runout date.
C1_RunoutIsFirstDayReachingStock ==
    Analysed =>
        /\ adv.out.status = 200
        /\ \A k \in FirstReached :
              /\ adv.out.runout_date.given
              /\ WellFormed(adv.out.runout_date.text)
              /\ strptime(adv.out.runout_date.text) = adv.today + k
        /\ FirstReached = {} => adv.out.runout_date = None

\* the stock is reached exactly, on a day after the first
C1_Witness ==
    /\ Analysed
    /\ \E k \in FirstReached : k >= 2 /\ Cumulative(k) = adv.current_stock
    /\ adv.out.runout_date.given

\* C2: the suggested action follows the priority table, first match wins:
\* waste risk, then no runout date, then runout within the safety buffer,
\* within the buffer plus 3, at 30 days or more, and otherwise normal.
C2_ActionPriorityTable ==
    sug.called =>
        LET d == sug.days_until_runout
            b == sug.safety_buffer
            Expected ==
                CASE sug.waste_risk -> "Run a special - high waste risk detected before expiry"
                  [] ~sug.waste_risk /\ ~d.given ->
                        "Stock appears sufficient - monitor regularly"
                  [] ~sug.waste_risk /\ d.given /\ d.val <= b ->
                        "Reorder now - critical stock level"
                  [] ~sug.waste_risk /\ d.given /\ d.val > b /\ d.val <= b + 3 ->
                        "Reorder soon - approaching reorder point"
                  [] ~sug.waste_risk /\ d.given /\ d.val > b + 3 /\ d.val >= 30 ->
                        "Increase safety buffer - excess inventory detected"
                  [] ~sug.waste_risk /\ d.given /\ d.val > b + 3 /\ d.val < 30 ->
                        "Monitor closely - stock levels normal"
        IN  sug.action = Expected

\* runout on the last day of the safety buffer, and no waste risk
C2_Witness ==
    /\ sug.called
    /\ ~sug.waste_risk
    /\ sug.days_until_runout = SomeInt(sug.safety_buffer)
    /\ sug.safety_buffer = 3
    /\ sug.action = "Reorder now - critical stock level"

\* the perish date is given, well-formed and strictly after today
PerishInFuture ==
    /\ Analysed
    /\ Truthy(adv.perish_date)
    /\ StrLess(strftime(adv.today), adv.perish_date.text)

\* forecast consumption of the forecast days dated before the perish date,
\* the perish date's own day counted or not
ConsumptionBeforePerish(own_day) ==
    Sum([i \in 1..Len(adv.predictions) |->
            IF \/ StrLess(strftime(adv.today + i), adv.perish_date.text)
               \/ own_day /\ strftime(adv.today + i) = adv.perish_date.text
            THEN adv.predictions[i] ELSE 0])

\* C3 as stated: with a perish date strictly in the future, waste_risk is true
\* iff the forecast consumption of the days strictly before the perish date,
\* the perish date's own day excluded, is less than current_stock.
C3_WasteRiskSumsDaysBeforePerish ==
    PerishInFuture =>
        (adv.out.waste_risk <=> ConsumptionBeforePerish(FALSE) < adv.current_stock)

\* C3 amended: with a perish date strictly in the future, waste_risk is true
\* iff the forecast consumption of the forecast days up to and including the
\* perish date's own day is less than current_stock.
C3_WasteRiskSumsDaysThroughPerish ==
    PerishInFuture =>
        (adv.out.waste_risk <=> ConsumptionBeforePerish(TRUE) < adv.current_stock)

\* the stock outlasts the days before the perish date, not the perish day itself
C3_Witness ==
    /\ PerishInFuture
    /\ ConsumptionBeforePerish(FALSE) < adv.current_stock
    /\ ConsumptionBeforePerish(TRUE) >= adv.current_stock
    /\ ~adv.out.waste_risk

\* C4: waste_risk is false whenever the perish date is absent, is today or is
\* in the past, whatever the stock and the forecast.
C4_NoWasteRiskWithoutFuturePerish ==
    (Analysed /\ ~PerishInFuture) => (adv.out.status = 200 /\ ~adv.out.waste_risk)

\* a perish date of today with more stock than the whole forecast consumes
C4_Witness ==
    /\ Analysed
    /\ Truthy(adv.perish_date)
    /\ adv.perish_date.text = strftime(adv.today)
    /\ Sum(adv.predictions) < adv.current_stock
    /\ ~adv.out.waste_risk

-----------------------------------------------------------------------------
(* Properties of the service *)

\* a prediction request passed the gate, fetched a non-empty history and
\* called a predictor that is loaded and returns
RolledOut ==
    /\ resp.endpoint = "predict"
    /\ resp.out.fetches = 1
    /\ resp.history # <<>>
    /\ svc = "ens" => predictor = "loaded"
    /\ ~resp.pred.raises

\* C5: with a working predictor over a non-empty history the rollout builds
\* exactly lookahead_days forecast points, and point i (1-based) is dated
\* today + i days: consecutive calendar days from tomorrow on, no duplicate
\* and no gap.
C5_RolloutHasOnePointPerDay ==
    RolledOut =>
        /\ Len(resp.out.rollout) = resp.lookahead_days
        /\ \A i \in 1..Len(resp.out.rollout) :
              /\ resp.out.rollout[i].predicted.given
              /\ WellFormed(resp.out.rollout[i].date)
              /\ strptime(resp.out.rollout[i].date) = resp.today + i

\* a rollout of several days that runs over the end of a month
C5_Witness ==
    /\ RolledOut
    /\ Len(resp.out.rollout) >= 2
    /\ resp.out.rollout[1].date[2] # resp.out.rollout[Len(resp.out.rollout)].date[2]

\* C6: every point estimate of the rollout is >= 0, whatever the predictor
\* returns, also where the predictor call raises and the average of the
\* trailing 7 rows is used.
C6_PointEstimatesNonNegative ==
    resp.endpoint = "predict" =>
        \A i \in 1..Len(resp.out.rollout) : resp.out.rollout[i].predicted.val >= 0

\* the band of a forecast point: low = 0.85 x predicted, high = 1.15 x
\* predicted (ten-thousandths against hundredths), low <= predicted <= high
HasBand(point) ==
    /\ point.predicted.given
    /\ point.confidence_low.given
    /\ point.confidence_high.given
    /\ point.confidence_low.val = 85 * point.predicted.val
    /\ point.confidence_high.val = 115 * point.predicted.val
    /\ point.confidence_low.val <= 100 * point.predicted.val
    /\ 100 * point.predicted.val <= point.confidence_high.val

C8_EmptyHistoryIsNotFound ==
    (resp.endpoint = "predict" /\ resp.out.fetches = 1 /\ resp.history = <<>>) =>
        (resp.out.status = 404 /\ resp.out.detail_sku = resp.sku_id)

C10_HealthyIffBothFlags ==
    resp.endpoint = "health" =>
        /\ resp.health.status \in {"healthy", "degraded"}
        /\ resp.health.status = "healthy"
              <=> (resp.health.model_loaded /\ resp.health.database_connected)

\* the ensemble predictor object exists but its load failed: degraded
C10_Witness ==
    /\ resp.endpoint = "health"
    /\ svc = "ens"
    /\ predictor = "created"
    /\ resp.health.database_connected
    /\ ~resp.health.model_loaded
    /\ resp.health.status = "degraded"

\* the points of a response are in ascending order of their date strings
SortedByDate(points) ==
    \A i \in 1..(Len(points) - 1) : ~StrLess(points[i + 1].date, points[i].date)

\* a historical point: an actual value and no prediction
IsHistoricalPoint(point) == point.actual.given /\ ~point.predicted.given

\* a future point: a prediction and no actual value
IsFuturePoint(point) == point.predicted.given /\ ~point.actual.given

-----------------------------------------------------------------------------
(* Feature builders.  A usage record is [date, restaurant_id, ingredient_id, *)
(* qty_used, attrs]: qty_used and every attribute may be null.  A feature   *)
(* row is a function from the builder's column names to values; a value is  *)
(* an Optional[int], null being NaN.  The two rolling means are kept in     *)
(* twenty-firsts of a unit (a sum of 3 times 7, a sum of 7 times 3).        *)

MaxRows == 15        \* longest history handed to a feature builder

StaticCols ==
    {"covers", "seasonality_factor", "inventory_start", "on_order_qty",
     "avg_daily_usage_7d", "avg_daily_usage_28d", "shelf_life_days", "unit_cost",
     "is_holiday", "lead_time_days"}

CalendarCols == {"day_of_week", "month", "day_of_month"}

LagCols == {"qty_used_lag_1", "qty_used_lag_7", "qty_used_lag_14"}

RollCols == {"qty_used_roll_3d", "qty_used_roll_7d"}

\* the value each builder that has defaults puts for a null: the fillna
\* arguments of ml_simple and numeric_defaults of the loader
Default(col) ==
    CASE col = "covers" -> 250
      [] col = "seasonality_factor" -> 1
      [] col = "shelf_life_days" -> 30
      [] col = "unit_cost" -> 1
      [] col = "lead_time_days" -> 2
      [] OTHER -> 0

UsageRecord(date, restaurant_id, ingredient_id, qty_used, attrs) ==
    [date |-> date, restaurant_id |-> restaurant_id, ingredient_id |-> ingredient_id,
     qty_used |-> qty_used, attrs |-> attrs]

\* Series.fillna(d) on one value
Fillna(v, d) == IF v.given THEN v ELSE SomeInt(d)

\* data.sort_values('date'): rows in ascending date order, rows of one date
\* in the order given
RECURSIVE InsertByDate(_, _)
InsertByDate(row, sorted) ==
    IF sorted = <<>> THEN <<row>>
    ELSE IF row.date < Head(sorted).date THEN <<row>> \o sorted
    ELSE <<Head(sorted)>> \o InsertByDate(row, Tail(sorted))

RECURSIVE SortValues(_)
SortValues(data) ==
    IF data = <<>> THEN <<>>
    ELSE InsertByDate(data[Len(data)], SortValues(SubSeq(data, 1, Len(data) - 1)))

\* data['qty_used']
QtyUsed(data) == [i \in 1..Len(data) |-> data[i].qty_used]

\* Series.shift(n): the value n rows earlier, NaN for the first n rows
Shift(col, n) == [i \in 1..Len(col) |-> IF i > n THEN col[i - n] ELSE NoneInt]

\* a rolling mean over the w rows before the row, the row itself left out
RollingMeanOfPriorRows(col, w) ==
    [i \in 1..Len(col) |->
        IF i > w /\ \A j \in (i - w)..(i - 1) : col[j].given
        THEN SomeInt((21 \div w) * Sum([k \in 1..w |-> col[i - w - 1 + k].val]))
        ELSE NoneInt]

\* Series.rolling(w).mean(): the mean of the w rows ending at the row, NaN
\* unless the window holds w non-null observations (min_periods = w)
RollingMean(col, w) ==
    [i \in 1..Len(col) |->
        IF i >= w /\ \A j \in (i - w + 1)..i : col[j].given
        THEN SomeInt((21 \div w) * Sum([k \in 1..w |-> col[i - w + k].val]))
        ELSE NoneInt]

\* dt.dayofweek: Monday is 0; ordinal 0, 2024-01-01, is a Monday
DayOfWeek(date) == date % 7

\* the calendar columns of a row
Calendar(col, date) ==
    CASE col = "day_of_week" -> SomeInt(DayOfWeek(date))
      [] col = "month" -> SomeInt(strftime(date)[2])
      [] col = "day_of_month" -> SomeInt(strftime(date)[3])
      [] col = "is_weekend" -> SomeInt(IF DayOfWeek(date) >= 5 THEN 1 ELSE 0)

\* the lag and rolling columns computed over one qty_used column
LagOrRoll(col, qty) ==
    CASE col = "qty_used_lag_1" -> Shift(qty, 1)
      [] col = "qty_used_lag_7" -> Shift(qty, 7)
      [] col = "qty_used_lag_14" -> Shift(qty, 14)
      [] col = "qty_used_roll_3d" -> RollingMean(qty, 3)
      [] col = "qty_used_roll_7d" -> RollingMean(qty, 7)

\* the columns of the feature table of ml_simple and of prepare_features
SimpleCols == StaticCols \cup CalendarCols \cup {"is_weekend"} \cup LagCols \cup RollCols

\* the columns prepare_xgboost_features selects: qty_used itself, no is_weekend
XgbCols == StaticCols \cup {"qty_used"} \cup CalendarCols \cup LagCols \cup RollCols

\* the columns of numeric_defaults that a usage record carries
LoaderCols == StaticCols \cup {"qty_used"}

\* the feature table built inline by predict_inventory_simple: the static
\* columns filled with their defaults, lags and rolling means filled with 0
SimpleFeatures(history) ==
    LET data == SortValues(history)
        qty == QtyUsed(data)
    IN  [i \in 1..Len(data) |->
            [col \in SimpleCols |->
                IF col \in StaticCols THEN Fillna(data[i].attrs[col], Default(col))
                ELSE IF col \in LagCols \cup RollCols THEN Fillna(LagOrRoll(col, qty)[i], 0)
                ELSE Calendar(col, data[i].date)]]

\* prepare_xgboost_features: every selected column filled with 0
XgbFeatures(history) ==
    LET data == SortValues(history)
        qty == QtyUsed(data)
    IN  [i \in 1..Len(data) |->
            [col \in XgbCols |->
                IF col \in StaticCols THEN Fillna(data[i].attrs[col], 0)
                ELSE IF col = "qty_used" THEN Fillna(qty[i], 0)
                ELSE IF col \in LagCols \cup RollCols THEN Fillna(LagOrRoll(col, qty)[i], 0)
                ELSE Fillna(Calendar(col, data[i].date), 0)]]

\* the positions of the rows selected by data['ingredient_id'] == ingredient_id
RECURSIVE MaskIdx(_, _, _)
MaskIdx(data, ingredient_id, i) ==
    IF i > Len(data) THEN <<>>
    ELSE (IF data[i].ingredient_id = ingredient_id THEN <<i>> ELSE <<>>)
             \o MaskIdx(data, ingredient_id, i + 1)

\* prepare_features of train_simple_xgboost: lags and rolling means over the
\* rows of one ingredient_id, every selected column filled with 0
TrainFeatures(history) ==
    LET data == SortValues(history)
    IN  [i \in 1..Len(data) |->
            LET mask == MaskIdx(data, data[i].ingredient_id, 1)
                qty == [k \in 1..Len(mask) |-> data[mask[k]].qty_used]
                pos == CHOOSE k \in 1..Len(mask) : mask[k] = i
            IN  [col \in SimpleCols |->
                    IF col \in StaticCols THEN Fillna(data[i].attrs[col], 0)
                    ELSE IF col \in LagCols \cup RollCols
                    THEN Fillna(LagOrRoll(col, qty)[pos], 0)
                    ELSE Fillna(Calendar(col, data[i].date), 0)]]

\* RestaurantDatabaseLoader._add_derived_features, on the columns a usage
\* record carries: each filled with its entry of numeric_defaults, rows kept
\* in the order of the query
AddDerivedFeatures(history) ==
    [i \in 1..Len(history) |->
        [col \in LoaderCols |->
            IF col = "qty_used" THEN Fillna(history[i].qty_used, 0)
            ELSE Fillna(history[i].attrs[col], Default(col))]]

Builders == {"simple", "xgb", "train", "loader"}

BuildFeatures(builder, history) ==
    CASE builder = "simple" -> SimpleFeatures(history)
      [] builder = "xgb" -> XgbFeatures(history)
      [] builder = "train" -> TrainFeatures(history)
      [] builder = "loader" -> AddDerivedFeatures(history)

\* the attributes of a record: all set, all null, or covers alone null
Attrs(mode) ==
    [col \in StaticCols |->
        IF mode = "null" \/ (mode = "mixed" /\ col = "covers") THEN NoneInt
        ELSE SomeInt(5)]

\* a history of n rows of one SKU on consecutive dates: row i used i units,
\* the row at null_row (if any) has a null qty_used
UsageHistory(n, null_row, mode) ==
    [i \in 1..n |->
        UsageRecord(40 + i, "R1", "I1",
                    IF i = null_row THEN NoneInt ELSE SomeInt(i), Attrs(mode))]

\* s[::-1]
Reversed(s) == [i \in 1..Len(s) |-> s[Len(s) + 1 - i]]

\* the histories handed to the builders, in date order and in reverse order
FeatureHistories ==
    UNION {{UsageHistory(n, null_row, mode), Reversed(UsageHistory(n, null_row, mode))} :
             n \in 0..MaxRows, null_row \in 0..MaxRows, mode \in {"set", "null", "mixed"}}

\* the rows load_training_data hands to prepare_features: on each of n
\* consecutive dates one row per SKU, the SKUs being one ingredient at two
\* restaurants and, if asked, a second ingredient at the first restaurant;
\* the restaurants differ by 10 and the ingredients by 20 in what they use
TrainingData(n, skus) ==
    [k \in 1..(n * Len(skus)) |->
        LET day == ((k - 1) \div Len(skus)) + 1
            sku == skus[((k - 1) % Len(skus)) + 1]
        IN  UsageRecord(40 + day, sku[1], sku[2],
                        SomeInt(day + (IF sku[1] = "R2" THEN 10 ELSE 0)
                                    + (IF sku[2] = "I2" THEN 20 ELSE 0)),
                        Attrs("set"))]

\* the training tables, with the rows of one date in either order
TrainingHistories ==
    {TrainingData(n, skus) :
        n \in 1..MaxRows,
        skus \in {<<<<"R1", "I1">>, <<"R2", "I1">>>>,
                  <<<<"R2", "I1">>, <<"R1", "I1">>>>,
                  <<<<"R1", "I1">>, <<"R1", "I2">>>>,
                  <<<<"R1", "I2">>, <<"R2", "I1">>, <<"R1", "I1">>>>}}

\* the prediction handlers and the loader are given the rows of one SKU, the
\* training function the rows of every SKU
BuildInputs ==
    {[called |-> FALSE, builder |-> builder, history |-> history, raised |-> FALSE,
      rows |-> <<>>] : builder \in Builders, history \in FeatureHistories}
    \cup
    {[called |-> FALSE, builder |-> "train", history |-> history, raised |-> FALSE,
      rows |-> <<>>] : history \in TrainingHistories}

\* one call of a feature builder
Build ==
    /\ fb # NoBuild /\ ~fb.called
    /\ fb' = [fb EXCEPT !.called = TRUE,
                        !.rows = BuildFeatures(fb.builder, fb.history)]
    /\ UNCHANGED <<service, adv, sug, ens, imp>>

InitFeatures ==
    /\ svc = "simple" /\ started = FALSE /\ predictor = "None" /\ db_loader = FALSE
    /\ resp = NoRequest /\ adv = NoInput /\ sug = NoSuggestion
    /\ fb \in BuildInputs
    /\ ens = NoForecast
    /\ imp = NoImport

NextFeatures == Build

SpecFeatures == InitFeatures /\ [][NextFeatures]_vars

-----------------------------------------------------------------------------
(* Properties of the feature builders *)

\* every attribute of every record of the history handed over is null
AllAttrsNull ==
    /\ fb.history # <<>>
    /\ \A i \in 1..Len(fb.history) : \A col \in StaticCols :
          ~fb.history[i].attrs[col].given

\* the documented default table
DocumentedDefaults(row) ==
    /\ row["covers"] = SomeInt(250)
    /\ row["seasonality_factor"] = SomeInt(1)
    /\ row["inventory_start"] = SomeInt(0)
    /\ row["on_order_qty"] = SomeInt(0)
    /\ row["avg_daily_usage_7d"] = SomeInt(0)
    /\ row["avg_daily_usage_28d"] = SomeInt(0)
    /\ row["shelf_life_days"] = SomeInt(30)
    /\ row["unit_cost"] = SomeInt(1)
    /\ row["is_holiday"] = SomeInt(0)
    /\ row["lead_time_days"] = SomeInt(2)

\* C12: whichever feature builder is called, a row built from a usage record
\* whose optional attributes are all null has exactly the documented
\* defaults: covers 250, seasonality_factor 1.0, inventory_start 0,
\* on_order_qty 0, both usage averages 0, shelf_life_days 30, unit_cost 1.0,
\* is_holiday 0, lead_time_days 2.
C12_NullRecordGetsDocumentedDefaults ==
    (fb.called /\ AllAttrsNull) =>
        \A i \in 1..Len(fb.rows) : DocumentedDefaults(fb.rows[i])

\* the columns of a FeatureRow: the attributes, the calendar fields with the
\* weekend flag, the three lags and the two rolling means
FeatureRowSchema ==
    StaticCols \cup {"day_of_week", "month", "day_of_month", "is_weekend"}
        \cup {"qty_used_lag_1", "qty_used_lag_7", "qty_used_lag_14"}
        \cup {"qty_used_roll_3d", "qty_used_roll_7d"}

\* C13: for every history of at least one record, whichever of its values are
\* null, a builder of the prediction handlers returns exactly one feature row
\* per record, and every row has every feature column, none of them null;
\* a short history raises nothing.
C13_OneCompleteRowPerRecord ==
    (fb.called /\ fb.builder \in {"simple", "xgb"} /\ fb.history # <<>>) =>
        /\ ~fb.raised
        /\ Len(fb.rows) = Len(fb.history)
        /\ \A i \in 1..Len(fb.rows) :
              /\ FeatureRowSchema \subseteq DOMAIN fb.rows[i]
              /\ \A col \in DOMAIN fb.rows[i] : fb.rows[i][col].given

-----------------------------------------------------------------------------
(* Relational properties of the advisor: the result of the call made is     *)
(* compared with the result the same code gives for other arguments.        *)

\* days_until_runout of the forecast analysed, for another stock level
RunoutDaysFor(current_stock) ==
    DaysUntilRunout(RunoutDate(adv.predictions, current_stock, adv.today), adv.today)

\* runout a is not earlier than runout b, an absent runout being later than
\* every present one
NotEarlier(a, b) == ~a.given \/ (b.given /\ a.val >= b.val)

\* C14: for a fixed forecast and any stock level at or above the one
\* analysed, days_until_runout is not smaller than the one computed, an absent
\* runout counting as later than every present one (absent stays absent).
C14_RunoutMonotoneInStock ==
    Analysed =>
        \A s2 \in Stocks :
            s2 >= adv.current_stock =>
                NotEarlier(RunoutDaysFor(s2), adv.out.days_until_runout)

\* a stock that runs out, a larger one that runs out later, a still larger
\* one that does not run out
C14_Witness ==
    /\ Analysed
    /\ adv.out.days_until_runout.given
    /\ \E s2 \in Stocks :
          /\ s2 > adv.current_stock
          /\ RunoutDaysFor(s2).given
          /\ RunoutDaysFor(s2).val > adv.out.days_until_runout.val
    /\ \E s3 \in Stocks : s3 > adv.current_stock /\ ~RunoutDaysFor(s3).given

\* C15: the action returned is the one the table returns for the same
\* waste_risk, days_until_runout and safety_buffer with any other
\* current_stock and avg_daily_consumption, and the call changes nothing but
\* its own result.
C15_ActionDependsOnThreeInputs ==
    /\ [](sug.called =>
            \A current_stock \in 0..MaxPred, avg_daily_consumption \in 0..(100 * MaxPred) :
                GenerateActionSuggestion(sug.days_until_runout, sug.waste_risk,
                                         current_stock, avg_daily_consumption,
                                         sug.safety_buffer) = sug.action)
    /\ [][sug' # sug => UNCHANGED <<service, adv, fb, ens, imp>>]_vars

\* a call with stock on hand and a positive average consumption that is told
\* to reorder
C15_Witness ==
    /\ sug.called
    /\ sug.current_stock > 0
    /\ sug.avg_daily_consumption > 0
    /\ ~sug.waste_risk
    /\ sug.days_until_runout.given
    /\ sug.action = "Reorder soon - approaching reorder point"

-----------------------------------------------------------------------------
(* Properties of the service: errors *)

\* C16: a prediction request whose horizon is outside 1..90 and an
\* optimisation request whose perish_date is not a "%Y-%m-%d" date, sent to a
\* service whose handles are loaded, are answered with the validation error
\* (422, the structured list of what is wrong), never with the generic
\* failure response.
C16_MalformedInputIsValidationError ==
    (/\ predictor = "loaded" /\ db_loader
     /\ \/ resp.endpoint = "predict" /\ ~ValidLookahead(resp.lookahead_days)
        \/ /\ resp.endpoint = "optimize"
           /\ Truthy(resp.perish_date) /\ ~WellFormed(resp.perish_date.text)) =>
        resp.out.status = 422

\* C17: when the predictor call of a prediction request raises, the request
\* ends with the prediction failure, whose detail names the predictor's error
\* and the requested sku; no forecast point is built or returned, and the
\* predictor is not called a second time.
C17_PredictorFailureIsPropagated ==
    (resp.endpoint = "predict" /\ resp.out.predict_calls >= 1 /\ resp.pred.raises) =>
        /\ resp.out.status = 500
        /\ resp.out.detail = "Prediction failed: predictor error"
        /\ resp.out.detail_sku = resp.sku_id
        /\ resp.out.predictions = <<>>
        /\ resp.out.rollout = <<>>
        /\ resp.out.predict_calls = 1

\* the forecast points of the request answered were given the average of the
\* trailing 7 rows of the history as their point estimate
UsedHistoricalAverage ==
    /\ resp.out.rollout # <<>>
    /\ resp.history # <<>>
    /\ resp.pred.raises
    /\ \A i \in 1..Len(resp.out.rollout) :
          resp.out.rollout[i].predicted = SomeInt(FallbackAverage(resp.history))

\* C18: a prediction request to the single-model service (valid, for a sku
\* with history) gets the trailing-7-day average as its point estimate
\* exactly when the predictor is not loaded, and never when the predictor is
\* loaded and its call fails.
C18_AverageOnlyWhenPredictorUnavailable ==
    (/\ svc = "simple" /\ resp.endpoint = "predict" /\ db_loader
     /\ ValidLookahead(resp.lookahead_days)) =>
        /\ predictor = "None" => resp.out.rollout # <<>>
        /\ UsedHistoricalAverage => predictor = "None"

-----------------------------------------------------------------------------
(* Properties of the advisor: scenarios *)

\* C19: when the perish date is d days after today, d > 0, and the first d
\* forecast values (all of them when the forecast has fewer) sum to less than
\* current_stock, the analysis succeeds with waste_risk = true.
C19_StockOutlivingShelfLifeIsWasteRisk ==
    Analysed =>
        \A d \in 1..(MaxLen + 1) :
            (/\ adv.perish_date = Some(strftime(adv.today + d))
             /\ Sum(Prefix(adv.predictions, d)) < adv.current_stock) =>
                (adv.out.status = 200 /\ adv.out.waste_risk)

\* a perish date inside the forecast: the days up to it consume something,
\* less than the stock, and the days after would have consumed the rest
C19_Witness ==
    /\ Analysed
    /\ \E d \in 2..(Len(adv.predictions) - 1) :
          /\ adv.perish_date = Some(strftime(adv.today + d))
          /\ Sum(Prefix(adv.predictions, d)) > 0
          /\ Sum(Prefix(adv.predictions, d)) < adv.current_stock
          /\ Sum(adv.predictions) >= adv.current_stock
    /\ adv.out.waste_risk

-----------------------------------------------------------------------------
(* Properties of the service: the handles *)

\* C20: the predictor handle and the data-source handle change only in the
\* startup step; every request (prediction, optimisation, health, sku
\* listing), answered with a result or with an error, leaves both as they
\* were, so that once startup has run they keep their values for ever.
C20_HandlesWrittenOnlyByStartup ==
    [][/\ (predictor' # predictor \/ db_loader' # db_loader) => (~started /\ started')
       /\ started => (predictor' = predictor /\ db_loader' = db_loader)]_vars

\* a request failed after startup had loaded both handles, and they are
\* still loaded
C20_Witness ==
    /\ started
    /\ predictor = "loaded" /\ db_loader
    /\ resp.endpoint \in {"predict", "skus"}
    /\ resp.out.status = 500
    /\ resp.out.fetches = 1

-----------------------------------------------------------------------------
(* The ensemble forecast on its own: predict_with_ensemble from the         *)
(* meta-model's combined estimate on, for every horizon a request may ask.  *)

MaxBase == 2         \* largest magnitude of the combined base estimate

MaxLookahead == 90   \* le=90 of lookahead_days

ForecastInputs ==
    {[called |-> FALSE, current_pred |-> current_pred, forecast_days |-> forecast_days,
      forecast |-> <<>>] :
        current_pred \in (-MaxBase)..MaxBase, forecast_days \in 1..MaxLookahead}

\* one call of predict_with_ensemble
Forecast ==
    /\ ens # NoForecast /\ ~ens.called
    /\ ens' = [ens EXCEPT !.called = TRUE,
                          !.forecast = EnsembleForecast(ens.current_pred, ens.forecast_days)]
    /\ UNCHANGED <<service, adv, sug, fb, imp>>

InitEnsemble ==
    /\ svc = "ens" /\ started = FALSE /\ predictor = "None" /\ db_loader = FALSE
    /\ resp = NoRequest /\ adv = NoInput /\ sug = NoSuggestion /\ fb = NoBuild
    /\ ens \in ForecastInputs
    /\ imp = NoImport

NextEnsemble == Forecast

SpecEnsemble == InitEnsemble /\ [][NextEnsemble]_vars

-----------------------------------------------------------------------------
(* Properties of the ensemble forecast *)

RECURSIVE Pow(_, _)
Pow(b, e) == IF e = 0 THEN 1 ELSE b * Pow(b, e - 1)

\* C21 as stated: the value of forecast day i (0-based) is p x 0.98^i, that
\* is value x 100^i = p x 98^i; stated in exact integers (the value is in
\* hundredths) for the days 0..4, whose powers fit the machine integer.
C21_DecayIsGeometric ==
    ens.called =>
        \A i \in 0..4 :
            i < Len(ens.forecast) =>
                ens.forecast[i + 1] * Pow(100, i) = 100 * ens.current_pred * Pow(98, i)

\* C21 amended: the combined estimate p is decayed linearly by 2% of p per
\* day and clamped at zero: the value of forecast day i (0-based) is
\* max(0, p x (1 - 0.02 x i)), for every i of a horizon up to 90 days; for a
\* positive p each day is 0.02 x p below the day before until day 50, from
\* which on the value is 0.
C21_DecayIsLinearAndClamped ==
    ens.called =>
        /\ Len(ens.forecast) = ens.forecast_days
        /\ \A i \in 0..(Len(ens.forecast) - 1) :
              /\ ens.forecast[i + 1] =
                    Max(0, 100 * ens.current_pred - 2 * i * ens.current_pred)
              /\ (ens.current_pred > 0 /\ i >= 1 /\ i <= 50) =>
                    ens.forecast[i] - ens.forecast[i + 1] = 2 * ens.current_pred
              /\ (ens.current_pred > 0 /\ i >= 50) => ens.forecast[i + 1] = 0

\* a positive estimate forecast over the longest horizon: 96% of it on day 2
\* (not 96.04%), nothing from day 50 on
C21_Witness ==
    /\ ens.called
    /\ ens.current_pred = 1
    /\ Len(ens.forecast) = 90
    /\ ens.forecast[3] = 96
    /\ ens.forecast[51] = 0
    /\ ens.forecast[90] = 0

-----------------------------------------------------------------------------
(* Properties of the feature builders: lags and rolling means *)

\* two records of one SKU: the same restaurant and the same ingredient
SameSku(a, b) == a.restaurant_id = b.restaurant_id /\ a.ingredient_id = b.ingredient_id

\* the consumption of the row that is n rows before row i among the rows of
\* row i's SKU in the date-sorted table, 0 where it is null or there is none
ConsumptionRowsEarlier(data, i, n) ==
    LET earlier == {j \in 1..(i - 1) :
                       /\ SameSku(data[j], data[i])
                       /\ Cardinality({k \in j..(i - 1) : SameSku(data[k], data[i])}) = n}
    IN  IF earlier = {} THEN 0
        ELSE LET j == CHOOSE j \in earlier : TRUE
             IN  IF data[j].qty_used.given THEN data[j].qty_used.val ELSE 0

\* C22: in the table of every builder that derives lags, the lag-N feature
\* (N = 1, 7, 14) of a row is the consumption of the row N rows before it in
\* the date-sorted rows of the same restaurant and ingredient, counted in
\* rows; the consumption of another restaurant or ingredient is never used.
C22_LagIsSameSkuRowsEarlier ==
    (fb.called /\ fb.builder \in {"simple", "xgb", "train"}) =>
        LET data == SortValues(fb.history)
        IN  \A i \in 1..Len(fb.rows) :
                /\ fb.rows[i]["qty_used_lag_1"] = SomeInt(ConsumptionRowsEarlier(data, i, 1))
                /\ fb.rows[i]["qty_used_lag_7"] = SomeInt(ConsumptionRowsEarlier(data, i, 7))
                /\ fb.rows[i]["qty_used_lag_14"] = SomeInt(ConsumptionRowsEarlier(data, i, 14))

\* the table handed over holds the rows of one restaurant, so that the rows
\* of an ingredient are the rows of a SKU
OneRestaurant ==
    \A i \in 1..Len(fb.history) : fb.history[i].restaurant_id = fb.history[1].restaurant_id

\* the number of rows of row i's SKU before row i
PriorRows(data, i) == Cardinality({j \in 1..(i - 1) : SameSku(data[j], data[i])})

\* the last w rows of row i's SKU, row i included
TrailingRows(data, i, w) ==
    {j \in 1..i :
        /\ SameSku(data[j], data[i])
        /\ Cardinality({k \in j..i : SameSku(data[k], data[i])}) <= w}

\* the rolling-w value of row i, in twenty-firsts, where "short" is the
\* number of prior rows below which the default 0 is given: the mean of the
\* trailing w observations otherwise, 0 when one of them is null
RollingValue(data, i, w, short) ==
    LET window == TrailingRows(data, i, w)
    IN  IF PriorRows(data, i) < short THEN 0
        ELSE IF \E j \in window : ~data[j].qty_used.given THEN 0
        ELSE (21 \div w) * Sum([j \in 1..i |->
                                  IF j \in window THEN data[j].qty_used.val ELSE 0])

\* the lag and rolling columns of the table built, with the rolling default
\* given to rows of fewer than w - slack prior rows
ShortHistoryDefaults(slack) ==
    (fb.called /\ fb.builder \in {"simple", "xgb", "train"} /\ OneRestaurant) =>
        LET data == SortValues(fb.history)
        IN  \A i \in 1..Len(fb.rows) :
                /\ PriorRows(data, i) < 1 => fb.rows[i]["qty_used_lag_1"] = SomeInt(0)
                /\ PriorRows(data, i) < 7 => fb.rows[i]["qty_used_lag_7"] = SomeInt(0)
                /\ PriorRows(data, i) < 14 => fb.rows[i]["qty_used_lag_14"] = SomeInt(0)
                /\ fb.rows[i]["qty_used_roll_3d"] = SomeInt(RollingValue(data, i, 3, 3 - slack))
                /\ fb.rows[i]["qty_used_roll_7d"] = SomeInt(RollingValue(data, i, 7, 7 - slack))

\* C23 as stated: a row with fewer than N prior rows has lag-N 0; a row with
\* fewer than W prior rows has rolling-W 0 (W = 3, 7); every other row has
\* the arithmetic mean of the trailing W observations.
C23_DefaultsBelowWindowPriorRows == ShortHistoryDefaults(0)

\* C23 amended: a row with fewer than N prior rows has lag-N 0; a row with
\* fewer than W - 1 prior rows has rolling-W 0; every other row has the
\* arithmetic mean of the W observations that end with the row itself, or 0
\* if one of them is null.
C23_DefaultsBelowFullWindow == ShortHistoryDefaults(1)

\* the third row of a history: two prior rows, a 3-row mean that is not the
\* default, and no row 7 back
C23_Witness ==
    /\ fb.called /\ fb.builder \in {"simple", "xgb", "train"} /\ OneRestaurant
    /\ Len(fb.rows) >= 7
    /\ \A i \in 1..Len(fb.history) : fb.history[i].qty_used.given
    /\ PriorRows(SortValues(fb.history), 3) = 2
    /\ fb.rows[3]["qty_used_roll_3d"].val > 0
    /\ fb.rows[3]["qty_used_lag_7"] = SomeInt(0)
    /\ PriorRows(SortValues(fb.history), 7) = 6
    /\ fb.rows[7]["qty_used_roll_7d"].val > 0

-----------------------------------------------------------------------------
(* Properties of the service: startup and availability *)

\* C24: in every state after the startup step, whichever of its steps
\* failed, a predictor handle that is not None comes with a data-source
\* handle that is not None, in the single-model routers and in the ensemble
\* router.
C24_PredictorImpliesLoader ==
    (started /\ predictor # "None") => db_loader

\* the ensemble startup built the loader and the predictor object, and
\* load_ensemble failed
C24_Witness ==
    /\ started
    /\ svc = "ens"
    /\ predictor = "created"
    /\ db_loader
    /\ resp.endpoint = "health"

\* C25: in every state after startup, the health report says "healthy" iff
\* a prediction request sent in that state passes the availability gate (is
\* not answered 503); when the ensemble predictor object exists but its load
\* failed, the report says "degraded" and the gate rejects the request.
C25_HealthyIffGateOpen ==
    started =>
        /\ HealthCheck(svc, predictor, db_loader).status = "healthy"
              <=> PredictGate(predictor, db_loader)
        /\ (resp.endpoint = "predict" /\ ValidLookahead(resp.lookahead_days)) =>
              (HealthCheck(svc, predictor, db_loader).status = "healthy"
                  <=> resp.out.status # 503)

-----------------------------------------------------------------------------
(* Properties of the service: the response of a prediction *)

\* C26: with both handles initialised, a predictor that returns and a
\* history of n >= 1 rows, a prediction request of horizon H is answered 200
\* with min(7, n) historical points followed by H future points.
C26_PredictionSucceedsWithHistoryAndForecast ==
    (/\ resp.endpoint = "predict"
     /\ predictor = "loaded" /\ db_loader
     /\ ValidLookahead(resp.lookahead_days)
     /\ resp.out.fetches = 1 /\ resp.history # <<>>
     /\ ~resp.pred.raises) =>
        LET shown == Min(7, Len(resp.history))
        IN  /\ resp.out.status = 200
            /\ Len(resp.out.predictions) = shown + resp.lookahead_days
            /\ \A i \in 1..Len(resp.out.predictions) :
                  IF i <= shown THEN resp.out.predictions[i].actual.given
                  ELSE resp.out.predictions[i].predicted.given

-----------------------------------------------------------------------------
(* Properties of the advisor: the 30-day forecast *)

\* C27: on a forecast of at most 30 days, as the optimisation handler asks
\* for, a days_until_runout that is present is in 1..30, and the action
\* "Increase safety buffer - excess inventory detected" is returned only
\* when the runout is on day 30, and never with a safety buffer of 27 or more.
C27_RunoutWithinThirtyDays ==
    (Analysed /\ Len(adv.predictions) <= OptimizationLookahead) =>
        /\ adv.out.days_until_runout.given =>
              /\ adv.out.days_until_runout.val >= 1
              /\ adv.out.days_until_runout.val <= Len(adv.predictions)
              /\ adv.out.days_until_runout.val <= 30
        /\ adv.out.suggested_action = "Increase safety buffer - excess inventory detected" =>
              /\ adv.out.days_until_runout = SomeInt(30)
              /\ adv.safety_buffer_days < 27

\* a 30-day forecast whose stock lasts until day 30, with a buffer of 26
C27_Witness ==
    /\ Analysed
    /\ Len(adv.predictions) = 30
    /\ adv.safety_buffer_days = 26
    /\ adv.out.days_until_runout = SomeInt(30)
    /\ adv.out.suggested_action = "Increase safety buffer - excess inventory detected"

\* C28: for a forecast without negative values, any stock and a perish date
\* in the future: if waste_risk is true and a runout date is present, the
\* runout is strictly after the perish date (days_until_runout >
\* days_to_perish); and with the perish date 30 or more days away (the whole
\* 30-day forecast before it), waste_risk is true exactly when there is no
\* runout date.
C28_WasteRiskMeansRunoutAfterPerish ==
    (PerishInFuture /\ \A i \in 1..Len(adv.predictions) : adv.predictions[i] >= 0) =>
        LET days_to_perish == strptime(adv.perish_date.text) - adv.today
        IN  /\ (adv.out.waste_risk /\ adv.out.runout_date.given) =>
                  /\ adv.out.days_until_runout.given
                  /\ adv.out.days_until_runout.val > days_to_perish
                  /\ StrLess(adv.perish_date.text, adv.out.runout_date.text)
            /\ (days_to_perish >= 30 /\ Len(adv.predictions) <= 30) =>
                  (adv.out.waste_risk <=> ~adv.out.runout_date.given)

\* the stock outlives a perish date inside the forecast and runs out later
C28_Witness ==
    /\ PerishInFuture
    /\ adv.out.waste_risk
    /\ adv.out.runout_date.given
    /\ adv.out.days_until_runout.val = (strptime(adv.perish_date.text) - adv.today) + 1
    /\ adv.current_stock > 1


-----------------------------------------------------------------------------
(* Properties of the ensemble forecast: monotonicity *)

\* C29: for every combined base estimate (positive, zero or negative) and
\* every horizon up to 90 days, the ensemble forecast does not increase from
\* one forecast day to the next.
C29_ForecastNonIncreasing ==
    ens.called =>
        \A n \in 1..(Len(ens.forecast) - 1) : ens.forecast[n + 1] <= ens.forecast[n]


-----------------------------------------------------------------------------
(* The CSV import job, scripts/import_data.py.  The rows of the CSV are     *)
(* numbered 1..rows in input order; a batch is the interval of row numbers  *)
(* one executemany call is given.  written counts the rows of this run      *)
(* inserted in the open transaction, committed those made durable.          *)

\* the row counts go up to MaxBatches full batches and one row more
MaxBatches == 2

\* at most MaxKeys distinct keys per dimension table
MaxKeys == 2

\* batch_size = 5000
batch_size == 5000

\* the tables filled from the accumulators, before the two batched ones
DimensionTables == Len(Tables) - 2

RowCounts ==
    {0, 1} \cup {k * batch_size + d : k \in 1..MaxBatches, d \in {-1, 0, 1}}

\* what the CSV holds: its rows, the distinct keys of each dimension table,
\* and the rows that carry a prediction
ImportInputs ==
    {[NoImport EXCEPT !.pc = "connected", !.rows = rows, !.keys = keys,
                      !.predictions = predictions] :
        rows \in RowCounts, keys \in 0..MaxKeys, predictions \in RowCounts}

CsvOf(run) ==
    /\ run.predictions <= run.rows
    /\ run.keys <= run.rows
    /\ run.rows > 0 => run.keys > 0

\* rows[i : i + batch_size] of a list of n rows, with "+ 1" in the upper
\* index: consecutive batches share a row
BatchOverlapping(n, i) == [first |-> i + 1, last |-> Min(i + batch_size + 1, n)]

\* rows[i : i + batch_size] of a list of n rows
Batch(n, i) == [first |-> i + 1, last |-> Min(i + batch_size, n)]

BatchLen(batch) == batch.last - batch.first + 1

\* the position after a loop: the loops over an empty list do not run
AfterDimensions(run) ==
    IF run.rows > 0 THEN "daily"
    ELSE IF run.predictions > 0 THEN "predictions" ELSE "commit"

AfterDaily(run) == IF run.predictions > 0 THEN "predictions" ELSE "commit"

\* an exception leaves main(): the process ends without commit and the
\* server rolls the open transaction back
Raised(run) == [run EXCEPT !.pc = "failed", !.written = NoRows]

\* the reading loop: the accumulators are filled, or a cell does not parse
ReadCsv ==
    /\ imp.pc = "connected"
    /\ \E ok \in BOOLEAN :
          imp' = IF ok THEN [imp EXCEPT !.pc = "dimensions"] ELSE Raised(imp)
    /\ UNCHANGED <<service, adv, sug, fb, ens>>

\* one of the six loops over a dimension accumulator
InsertDimension ==
    /\ imp.pc = "dimensions"
    /\ \E ok \in BOOLEAN :
          imp' = IF ok
                 THEN [imp EXCEPT !.table = imp.table + 1,
                                  !.written[Tables[imp.table + 1]] = imp.keys,
                                  !.pc = IF imp.table + 1 = DimensionTables
                                         THEN AfterDimensions(imp) ELSE "dimensions"]
                 ELSE Raised(imp)
    /\ UNCHANGED <<service, adv, sug, fb, ens>>

\* one step of "for i in range(0, len(daily_rows), batch_size)"
InsertDailyBatch ==
    /\ imp.pc = "daily"
    /\ LET i == Len(imp.daily_batches) * batch_size
           batch == Batch(imp.rows, i)
       IN  \E ok \in BOOLEAN :
              imp' = IF ok
                     THEN [imp EXCEPT !.daily_batches = Append(imp.daily_batches, batch),
                                      !.written["daily_inventory_log"] = @ + BatchLen(batch),
                                      !.pc = IF i + batch_size < imp.rows
                                             THEN "daily" ELSE AfterDaily(imp)]
                     ELSE Raised(imp)
    /\ UNCHANGED <<service, adv, sug, fb, ens>>

\* one step of "for i in range(0, len(prediction_rows), batch_size)"
InsertPredictionBatch ==
    /\ imp.pc = "predictions"
    /\ LET i == Len(imp.prediction_batches) * batch_size
           batch == Batch(imp.predictions, i)
       IN  \E ok \in BOOLEAN :
              imp' = IF ok
                     THEN [imp EXCEPT !.prediction_batches = Append(imp.prediction_batches, batch),
                                      !.written["predictions"] = @ + BatchLen(batch),
                                      !.pc = IF i + batch_size < imp.predictions
                                             THEN "predictions" ELSE "commit"]
                     ELSE Raised(imp)
    /\ UNCHANGED <<service, adv, sug, fb, ens>>

\* conn.commit()
Commit ==
    /\ imp.pc = "commit"
    /\ \E ok \in BOOLEAN :
          imp' = IF ok
                 THEN [imp EXCEPT !.pc = "done", !.committed = imp.written,
                                  !.commits = imp.commits + 1]
                 ELSE Raised(imp)
    /\ UNCHANGED <<service, adv, sug, fb, ens>>

InitImport ==
    /\ svc = "simple" /\ started = FALSE /\ predictor = "None" /\ db_loader = FALSE
    /\ resp = NoRequest /\ adv = NoInput /\ sug = NoSuggestion /\ fb = NoBuild
    /\ ens = NoForecast
    /\ imp \in {run \in ImportInputs : CsvOf(run)}

NextImport ==
    ReadCsv \/ InsertDimension \/ InsertDailyBatch \/ InsertPredictionBatch \/ Commit

SpecImport == InitImport /\ [][NextImport]_vars

-----------------------------------------------------------------------------
(* Properties of the import job *)

\* the batches are consecutive intervals of 1 to 5000 rows starting at row 1
Consecutive(batches) ==
    \A k \in 1..Len(batches) :
        /\ batches[k].first = (IF k = 1 THEN 1 ELSE batches[k - 1].last + 1)
        /\ batches[k].last >= batches[k].first
        /\ batches[k].last - batches[k].first + 1 <= 5000

\* the batches hold every one of n rows once, in input order
Covers(batches, n) ==
    /\ Consecutive(batches)
    /\ IF n = 0 THEN batches = <<>>
       ELSE Len(batches) > 0 /\ batches[Len(batches)].last = n

\* what a complete run leaves in the store
AllRows(run) ==
    [t \in DOMAIN NoRows |->
        CASE t = "daily_inventory_log" -> run.rows
          [] t = "predictions" -> run.predictions
          [] OTHER -> run.keys]

\* C30: the import writes all tables in one transaction that is committed
\* once, after the last batch: the daily-log rows go out in consecutive
\* batches of at most 5000 that cover every row exactly once in input order,
\* and a run in which an insert fails before the commit commits no row of
\* any table.
C30_OneTransactionCommittedAfterLastBatch ==
    imp.pc # "none" =>
        /\ imp.commits <= 1
        /\ Consecutive(imp.daily_batches)
        /\ Consecutive(imp.prediction_batches)
        /\ imp.pc \in {"predictions", "commit", "done"} =>
              Covers(imp.daily_batches, imp.rows)
        /\ imp.commits = 1 <=> imp.pc = "done"
        /\ imp.pc = "done" =>
              /\ Covers(imp.daily_batches, imp.rows)
              /\ Covers(imp.prediction_batches, imp.predictions)
              /\ imp.committed = AllRows(imp)
        /\ imp.pc # "done" => imp.committed = NoRows

\* a complete run over two full batches and one row more
C30_Witness ==
    /\ imp.pc = "done"
    /\ imp.rows = 2 * 5000 + 1
    /\ Len(imp.daily_batches) = 3
    /\ imp.daily_batches[3] = [first |-> 10001, last |-> 10001]
    /\ imp.committed["daily_inventory_log"] = 10001
    /\ imp.commits = 1

=============================================================================
